---------------------------- MODULE Spec2Model ----------------------------
(***************************************************************************)
(* The request pipeline of the Acai-TS router as the repository documents  *)
(* it: one event is routed to an endpoint configured with a requirements   *)
(* object (the functional pattern) and then, unchanged, to the endpoint    *)
(* that carries the corresponding decorators (the decorator pattern).      *)
(* Each run walks the documented stages; what a hook, the request or the   *)
(* handler does is chosen when the pipeline first asks for it and is then  *)
(* the same for the second run.                                            *)
(***************************************************************************)
EXTENDS Integers, Sequences, FiniteSets, TLC

(* ------------------------------ bounds -------------------------------- *)

\* The longest before / after hook list of a route.
MaxHooks == 2

\* The largest timeout, in abstract time units.
MaxTime == 2

(* ------------------------------ values -------------------------------- *)

Unset == "unset"

Surfaces == {"functional", "decorator"}

\* requiredHeaders: ['x-api-key', 'authorization']
HeaderNames == {"x-api-key", "authorization"}

\* requirements.<method>.requiredHeaders is absent or names both headers
HeaderLists == {{}, HeaderNames}

\* The headers an event may carry: none, one or both of the named ones.
HeaderSets == {{}, {"x-api-key"}, HeaderNames}

\* 0 stands for "no timeout configured"
Timeouts == 0..MaxTime

\* How long the handler takes: within the largest timeout or beyond it.
Durations == {MaxTime, MaxTime + 1}

\* The requirements object of one method of an endpoint file.
Requirements ==
    [auth : BOOLEAN,
     before : 0..MaxHooks,
     after : 0..MaxHooks,
     requiredHeaders : HeaderLists,
     timeout : Timeouts]

\* The router options the pipeline reads.
RouterConfig == [timeout : Timeouts, validateResponse : BOOLEAN]

\* What withAuth may do: let the request through, return false, set an
\* error on the response, or throw.
AuthOutcomes == {"allow", "false", "error", "throw"}

\* What the handler does once it settles: a body that satisfies the
\* response schema, one that violates it, or an exception.
HandlerKinds == {"ok", "invalid", "throw"}

Resolutions == {"ok", "NotFound", "MethodNotAllowed"}

ErrorKinds ==
    {"NotFound", "MethodNotAllowed", "ValidationError", "AuthError",
     "TimeoutError", "HandlerError", "ResponseValidationError",
     "MiddlewareError"}

Terminal == {"DONE", "ERROR"}

VARIABLES
    config,        \* the Router's configuration
    requirements,  \* surface -> the Requirements record of the route
    sourceOrder,   \* how the method's decorators are ordered in source
    env,           \* what the request, the hooks and the handler do
    run,           \* the surface of the endpoint that handles the event now
    pipe,          \* surface -> the state of that endpoint's run
    crashed,       \* the process died of an unhandled rejection
    routes,        \* the route table: endpoint file -> the methods it exports
    cacheMode,     \* the Router's cache option
    cache,         \* the route cache: (method, path) -> endpoint file
    seen,          \* (method, path) -> how its first request was resolved
    last,          \* the request routed last and how it was resolved
    validation,    \* the validation of one request against its requirements
    rendered,      \* the error responses of two failed requests
    timed,         \* the time one request spends in each of its stages
    loading,       \* concurrent invocations that share the route cache
    stream         \* one stream event and how far its handler has got

pipeVars == <<config, requirements, sourceOrder, env, run, pipe, crashed>>

routerVars == <<routes, cacheMode, cache, seen, last>>

layerVars == <<validation, rendered, timed, loading, stream>>

vars == <<pipeVars, routerVars, layerVars>>

(* ----------------------------- responses ------------------------------ *)

NoBody == [kind |-> "empty", detail |-> {}]

\* response.body = {...} as the handler sets it
HandlerBody(kind) == [kind |-> IF kind = "ok" THEN "handler" ELSE "handler-invalid",
                      detail |-> {}]

\* response.code = 201 as the handler sets it
HandlerCode == 201

\* new Response(): code 200, no body, no error
NewResponse == [code |-> 200, body |-> NoBody, hasErrors |-> FALSE]

NewPipe ==
    [pc |-> "IDLE", trace |-> <<>>, response |-> NewResponse,
     errKind |-> "none", hook |-> 0, late |-> "none", thrown |-> FALSE,
     onError |-> 0, onTimeout |-> 0]

\* What the request, the hooks and the handler do; a field keeps its
\* "not yet asked" value until a run first needs it.
NoEnv ==
    [resolution |-> Unset, beforeAll |-> Unset, auth |-> Unset,
     beforeErr |-> -1, headers |-> {Unset}, handler |-> Unset,
     duration |-> 0]

\* The values a run may see for a field: any of vals the first time, the
\* value already seen afterwards.
Pick(cur, none, vals) == IF cur = none THEN vals ELSE {cur}

(* ----------------------------- decorators ----------------------------- *)

\* A method without decorators has no requirements.
NoRequirements ==
    [auth |-> FALSE, before |-> 0, after |-> 0, requiredHeaders |-> {},
     timeout |-> 0]

Decorator(kind, flag, num, headers) ==
    [kind |-> kind, flag |-> flag, num |-> num, headers |-> headers]

\* The decorators that correspond to a requirements object:
\* auth: true <-> @Auth(), requiredHeaders <-> @Validate({requiredHeaders}),
\* before / after <-> @Before(...) / @After(...), timeout <-> @Timeout(ms).
Decorators(r) ==
    (IF r.auth THEN {Decorator("Auth", TRUE, 0, {})} ELSE {})
    \cup (IF r.before > 0 THEN {Decorator("Before", FALSE, r.before, {})} ELSE {})
    \cup (IF r.after > 0 THEN {Decorator("After", FALSE, r.after, {})} ELSE {})
    \cup (IF r.requiredHeaders # {}
          THEN {Decorator("Validate", FALSE, 0, r.requiredHeaders)} ELSE {})
    \cup (IF r.timeout # 0 THEN {Decorator("Timeout", FALSE, r.timeout, {})} ELSE {})

\* Every order in which the decorators of S can be written above a method.
RECURSIVE Perms(_)
Perms(S) ==
    IF S = {} THEN {<<>>}
    ELSE UNION {{<<d>> \o p : p \in Perms(S \ {d})} : d \in S}

\* What one decorator adds to the method's metadata.
ApplyDecorator(d, r) ==
    CASE d.kind = "Auth" -> [r EXCEPT !.auth = d.flag]
      [] d.kind = "Before" -> [r EXCEPT !.before = d.num]
      [] d.kind = "After" -> [r EXCEPT !.after = d.num]
      [] d.kind = "Validate" -> [r EXCEPT !.requiredHeaders = d.headers]
      [] d.kind = "Timeout" -> [r EXCEPT !.timeout = d.num]

\* The Requirements record read back from a method's metadata. Decorators
\* are applied bottom-up: the one written last is applied first.
RECURSIVE Reconcile(_)
Reconcile(w) ==
    IF w = <<>> THEN NoRequirements
    ELSE ApplyDecorator(Head(w), Reconcile(Tail(w)))

\* The place of a decorator in the documented execution order; @Timeout
\* belongs to the handler.
Rank(d) ==
    CASE d.kind = "Before" -> 1
      [] d.kind = "Auth" -> 2
      [] d.kind = "Validate" -> 3
      [] d.kind = "Timeout" -> 4
      [] d.kind = "After" -> 5

\* The decorators are written top to bottom in the order they execute in.
InExecutionOrder(w) ==
    \A i, j \in DOMAIN w : i < j => Rank(w[i]) < Rank(w[j])

(* ------------------------------ stages -------------------------------- *)

\* A functional order that runs the before hooks ahead of authentication.
FunctionalOrderBeforeFirst ==
    <<"BEFORE_ALL", "BEFORE", "AUTH", "VALIDATE", "HANDLER", "AFTER", "AFTER_ALL">>

\* Middleware Execution Order of the functional pattern.
FunctionalOrder ==
    <<"BEFORE_ALL", "AUTH", "BEFORE", "VALIDATE", "HANDLER", "AFTER", "AFTER_ALL">>

\* A decorator order that authenticates and validates ahead of @Before.
DecoratorOrderAuthFirst ==
    <<"BEFORE_ALL", "AUTH", "VALIDATE", "BEFORE", "HANDLER", "AFTER", "AFTER_ALL">>

\* Decorator Execution Order, between the router-level beforeAll and afterAll.
DecoratorOrder ==
    <<"BEFORE_ALL", "BEFORE", "AUTH", "VALIDATE", "HANDLER", "AFTER", "AFTER_ALL">>

Order(s) == IF s = "functional" THEN FunctionalOrder ELSE DecoratorOrder

IndexOf(seq, x) == CHOOSE i \in DOMAIN seq : seq[i] = x

\* The stage that follows st in the order of surface s.
Following(s, st) == Order(s)[IndexOf(Order(s), st) + 1]

Entry(st, hook) == [stage |-> st, hook |-> hook]

\* The status code of an error response. 401 is what the documented auth
\* hooks set and 400 what validation errors return; the engine's codes for
\* the other kinds are not documented and are not relied on.
StatusOf(kind) ==
    CASE kind = "AuthError" -> 401
      [] kind = "ValidationError" -> 400
      [] kind \in {"NotFound", "MiddlewareError"} -> 404
      [] kind = "MethodNotAllowed" -> 405
      [] kind = "TimeoutError" -> 408
      [] kind = "ResponseValidationError" -> 422
      [] OTHER -> 500

ErrorBody(kind, detail) == [kind |-> kind, detail |-> detail]

\* response.setError(...): the run leaves the happy path; only afterAll
\* is still to run.
Fail(p, kind, detail) ==
    [p EXCEPT !.pc = "AFTER_ALL", !.hook = 0, !.errKind = kind,
              !.response = [code |-> StatusOf(kind),
                            body |-> ErrorBody(kind, detail),
                            hasErrors |-> TRUE]]

Advance(p, s, st) == [p EXCEPT !.pc = Following(s, st), !.hook = 0]

Called(p, st, hook) == [p EXCEPT !.trace = Append(@, Entry(st, hook))]

\* An auth stage that denies only when the hook set an error itself.
AuthDeniedOnErrorOnly(o) == o = "error"

\* withAuth denies the request when it returns false, sets an error on the
\* response or throws; anything else lets the request through.
AuthDenied(o) == o \in {"false", "error", "throw"}

\* A validation that stops at the first missing header.
FirstMissingHeader(req, headers) ==
    LET missing == req.requiredHeaders \ headers
    IN IF missing = {} THEN {} ELSE {CHOOSE h \in missing : TRUE}

\* requiredHeaders: every header in the array must be in the request.
MissingHeaders(req, headers) == req.requiredHeaders \ headers

\* A timeout in which the router's global value wins over the route's.
GlobalTimeoutFirst(req, cfg) == IF cfg.timeout # 0 THEN cfg.timeout ELSE req.timeout

\* The route's timeout overrides the router's global timeout.
EffectiveTimeout(req, cfg) == IF req.timeout # 0 THEN req.timeout ELSE cfg.timeout

\* The handler has not resolved when a configured timeout elapses.
TimedOut(d, eff) == eff # 0 /\ d > eff

\* A router that never looks at the body the handler produced.
ResponseNeverChecked(cfg, kind) == FALSE

\* validateResponse: the body the handler produced fails the response schema.
ResponseViolates(cfg, kind) == cfg.validateResponse /\ kind = "invalid"

(* ------------------------------ routing ------------------------------- *)

\* The HTTP methods of requests, and the method functions a file may export.
Methods == {"get", "post"}

MethodSets == {{"get"}, {"get", "post"}}

\* File names in braces are route params.
ParamSegments == {"{farmId}"}

\* The endpoint files a project may hold, each with its folders below
\* routesPath, its name and its extension: farm/index.ts, farm/{farmId}.ts,
\* farm/field.ts and farm/{farmId}/index.ts.
ProjectFiles ==
    {[dirs |-> <<"farm">>, name |-> "index", ext |-> "ts"],
     [dirs |-> <<"farm">>, name |-> "{farmId}", ext |-> "ts"],
     [dirs |-> <<"farm">>, name |-> "field", ext |-> "ts"],
     [dirs |-> <<"farm", "{farmId}">>, name |-> "index", ext |-> "ts"]}

\* A mapping under which an index file is a segment like any other file.
FileRouteKeepsIndex(file) == Append(file.dirs, file.name)

\* The route of a file: its folders and its name without the extension;
\* an index file stands for its folder.
FileRoute(file) ==
    IF file.name = "index" THEN file.dirs ELSE Append(file.dirs, file.name)

\* The routes of the project's endpoint files: /farm, /farm/{farmId} and
\* /farm/field.
RouteFiles == {FileRoute(file) : file \in ProjectFiles}

\* A route table registers some of the files, each with the method
\* functions it exports.
RouteTables == UNION {[F -> MethodSets] : F \in SUBSET RouteFiles}

\* The paths of requests: /farm, /42 (no file), /farm/field (a static and
\* a dynamic file at the same position) and /farm/42 (only the dynamic one).
Paths == {<<"farm">>, <<"42">>, <<"farm", "field">>, <<"farm", "42">>}

CacheModes == {"all", "static", "dynamic", "none"}

EmptyMap == [k \in {} |-> <<>>]

NoRequest ==
    [method |-> "none", path |-> <<>>, outcome |-> "none", handlers |-> {},
     params |-> EmptyMap, hit |-> FALSE, repeat |-> FALSE, n |-> 0]

IsDynamic(seg) == seg \in ParamSegments

\* A dynamic segment matches any one concrete segment, a static one itself.
SegmentMatches(pat, seg) == IsDynamic(pat) \/ pat = seg

Matches(file, path) ==
    /\ Len(file) = Len(path)
    /\ \A i \in DOMAIN file : SegmentMatches(file[i], path[i])

\* The variable name between the braces of a dynamic file name.
ParamName(seg) == CASE seg = "{farmId}" -> "farmId"

\* request.pathParameters: the value at the place of every dynamic segment
\* of the route, under the segment's variable name.
PathParameters(file, path) ==
    LET dyn == {i \in DOMAIN file : IsDynamic(file[i])}
    IN [n \in {ParamName(file[i]) : i \in dyn} |->
          path[CHOOSE i \in dyn : ParamName(file[i]) = n]]

Candidates(table, path) == {f \in DOMAIN table : Matches(f, path)}

DynamicCount(file) == Cardinality({i \in DOMAIN file : IsDynamic(file[i])})

\* Where a static and a dynamic file both match, the static one is taken.
Selected(table, path) ==
    LET c == Candidates(table, path)
    IN {f \in c : \A g \in c : DynamicCount(f) <= DynamicCount(g)}

\* A resolution that takes every matching file that has the method.
ResolutionOfAllCandidates(table, method, path) ==
    LET files == Candidates(table, path)
        handlers == {f \in files : method \in table[f]}
    IN [outcome |-> IF files = {} THEN "NotFound"
                    ELSE IF handlers = {} THEN "MethodNotAllowed" ELSE "ok",
        handlers |-> handlers]

\* A resolution that does not look for the method's function in the file.
ResolutionIgnoresMethod(table, method, path) ==
    LET files == Selected(table, path)
    IN [outcome |-> IF files = {} THEN "NotFound" ELSE "ok", handlers |-> files]

\* The path selects the endpoint file; the request's method must then
\* match a function of that file.
Resolution(table, method, path) ==
    LET files == Selected(table, path)
        handlers == {f \in files : method \in table[f]}
    IN [outcome |-> IF files = {} THEN "NotFound"
                    ELSE IF handlers = {} THEN "MethodNotAllowed" ELSE "ok",
        handlers |-> handlers]

(* --------------------------- stream handlers -------------------------- *)

\* The example handlers: S3 events and DynamoDB Streams.
Sources == {"s3", "dynamodb"}

\* record.eventName is not there
Undefined == <<>>

\* S3 event names, split at the colon: ObjectCreated:Put,
\* ObjectRemoved:Delete, ObjectRestore:Post, or none at all.
S3EventNames ==
    {<<"ObjectCreated", "Put">>, <<"ObjectRemoved", "Delete">>,
     <<"ObjectRestore", "Post">>, Undefined}

\* Object keys, split at the dots: data.json, DATA.JSON, rows.csv, app.log,
\* notes.txt, feed.xml, image.png and a key without a dot, json.
Keys ==
    {<<"data", "json">>, <<"DATA", "JSON">>, <<"rows", "csv">>,
     <<"app", "log">>, <<"notes", "txt">>, <<"feed", "xml">>,
     <<"image", "png">>, <<"json">>}

DynamoEventNames == {"INSERT", "MODIFY", "REMOVE", "OTHER"}

\* The records an event of a source may hold; fails says that the work on
\* the record (reading and parsing the object, cleaning up, notifying)
\* throws.
StreamRecords(source) ==
    IF source = "s3"
    THEN [eventName : S3EventNames, key : Keys, fails : BOOLEAN]
    ELSE [eventName : DynamoEventNames, key : {<<>>}, fails : BOOLEAN]

\* eventName.startsWith(prefix)
StartsWith(name, prefix) == name[1] = prefix

\* toLowerCase()
ToLowerCase(part) == CASE part = "JSON" -> "json" [] OTHER -> part

\* record.key.split('.').pop()?.toLowerCase()
Extension(key) == ToLowerCase(key[Len(key)])

\* What going through one record came to.
Outcome(processors, cleanup, handled, threw, caught) ==
    [processors |-> processors, cleanup |-> cleanup, handled |-> handled,
     threw |-> threw, caught |-> caught, logged |-> caught # "none"]

\* handleObjectCreated: the switch on the extension, inside its own try.
HandleObjectCreated(rec) ==
    LET ext == Extension(rec.key)
        processors == CASE ext = "json" -> {"json"}
                        [] ext = "csv" -> {"csv"}
                        [] ext \in {"txt", "log"} -> {"text"}
                        [] ext = "xml" -> {"xml"}
                        [] OTHER -> {}
        threw == processors # {} /\ rec.fails
    IN Outcome(processors, FALSE, "none", threw, IF threw THEN "inner" ELSE "none")

\* handleObjectRemoved: cleanupRelatedData, with no try of its own.
HandleObjectRemoved(rec) ==
    Outcome({}, TRUE, "none", rec.fails, IF rec.fails THEN "escapes" ELSE "none")

\* The body of the S3 handler's try block for one record.
TryS3Record(rec) ==
    IF rec.eventName = Undefined
    THEN Outcome({}, FALSE, "none", TRUE, "escapes")
    ELSE IF StartsWith(rec.eventName, "ObjectCreated") THEN HandleObjectCreated(rec)
    ELSE IF StartsWith(rec.eventName, "ObjectRemoved") THEN HandleObjectRemoved(rec)
    ELSE Outcome({}, FALSE, "none", FALSE, "none")

\* The body of the DynamoDB handler's try block for one record.
TryDynamoRecord(rec) ==
    IF rec.eventName \in {"INSERT", "MODIFY", "REMOVE"}
    THEN Outcome({}, FALSE, rec.eventName, rec.fails,
                 IF rec.fails THEN "escapes" ELSE "none")
    ELSE Outcome({}, FALSE, "none", FALSE, "none")

\* A loop body without a catch: what the try block throws leaves the loop.
UncaughtRecord(source, rec) ==
    IF source = "s3" THEN TryS3Record(rec) ELSE TryDynamoRecord(rec)

\* try { ... } catch (error) { logger.error(...) }: what escapes the try
\* block is caught and logged, and the loop goes on.
CaughtRecord(source, rec) ==
    LET out == IF source = "s3" THEN TryS3Record(rec) ELSE TryDynamoRecord(rec)
    IN IF out.caught = "escapes"
       THEN [out EXCEPT !.caught = "outer", !.logged = TRUE]
       ELSE out

(* ------------------------- validation and errors ---------------------- *)

\* The places of a request that requirements are checked against, in the
\* order the checks run.
Locations == <<"headers", "query", "path", "body">>

\* What may be required at a location and what a request may carry there.
FieldSets(loc) == IF loc = "headers" THEN HeaderSets ELSE {{}, {"id"}}

RequestShapes == {f \in [{"headers", "query", "path", "body"} -> SUBSET (HeaderNames \cup {"id"})] :
                    \A loc \in DOMAIN f : f[loc] \in FieldSets(loc)}

NoValidation ==
    [required |-> [loc \in {} |-> {}], present |-> [loc \in {} |-> {}],
     next |-> 0, checked |-> <<>>, violations |-> {}, outcome |-> "none",
     body |-> {}]

\* One violation of a ValidationError.
Violation(loc, field) == [location |-> loc, field |-> field]

\* A presence check: every required field the request lacks at loc.
Check(loc, required, present) ==
    {Violation(loc, f) : f \in required[loc] \ present[loc]}

\* Messages an internal error may carry.
Messages == {"db down", "null pointer", "disk full"}

DefaultMessage == "default"

\* What went wrong inside the service when a request failed.
Failures == [kind : ErrorKinds, internal : Messages]

NoRendering == [outputError |-> FALSE, failures |-> <<>>, bodies |-> <<>>]

\* An error response that always carries the internal message.
RenderErrorDetailed(kind, internal, outputError) ==
    [code |-> StatusOf(kind), kind |-> kind, message |-> internal]

\* outputError: the internal error message is output, or just the default.
RenderError(kind, internal, outputError) ==
    [code |-> StatusOf(kind), kind |-> kind,
     message |-> IF outputError THEN internal ELSE DefaultMessage]

\* How long a stage may take: no time, as long as the largest timeout,
\* or longer than any timeout.
StageTimes == {0} \cup Durations

\* A request that has not started, with no timeout and no time spent.
NoTiming ==
    [timeout |-> 0, stage |-> 0, spent |-> [st \in {} |-> 0], outcome |-> "none"]

\* No invocation is being served.
NoLoading == [inv |-> <<>>, writes |-> EmptyMap]

\* No event is being handled.
NoStream ==
    [source |-> "none", total |-> 0, records |-> <<>>, done |-> <<>>,
     pc |-> "idle"]

LayersIdle ==
    /\ validation = NoValidation
    /\ rendered = NoRendering
    /\ timed = NoTiming
    /\ loading = NoLoading
    /\ stream = NoStream

(* ------------------------------- pipeline ----------------------------- *)

\* No request has been routed and nothing is registered.
RouterIdle ==
    /\ routes = EmptyMap
    /\ cacheMode = "none"
    /\ cache = EmptyMap
    /\ seen = EmptyMap
    /\ last = NoRequest

Init ==
    /\ RouterIdle
    /\ LayersIdle
    /\ config \in RouterConfig
    /\ \E r \in Requirements :
          requirements = [s \in Surfaces |->
                            IF s = "functional" THEN r ELSE NoRequirements]
    /\ sourceOrder = "none"
    /\ env = NoEnv
    /\ run = "functional"
    /\ pipe = [s \in Surfaces |->
                 IF s = "functional" THEN [NewPipe EXCEPT !.pc = "RESOLVE"]
                 ELSE NewPipe]
    /\ crashed = FALSE

(* ------------------------------ actions ------------------------------- *)

\* The event is adapted into a request (its headers are what they are from
\* here on; they matter only to a route that requires some) and the router
\* resolves its path and method to an endpoint.
Resolve ==
    /\ pipe[run].pc = "RESOLVE"
    /\ \E o \in Pick(env.resolution, Unset, Resolutions),
          h \in (IF requirements["functional"].requiredHeaders = {}
                 THEN {env.headers}
                 ELSE Pick(env.headers, {Unset}, HeaderSets)) :
          /\ env' = [env EXCEPT !.resolution = o, !.headers = h]
          /\ pipe' = [pipe EXCEPT ![run] =
                        IF o = "ok" THEN [@ EXCEPT !.pc = Order(run)[1]]
                        ELSE Fail(@, o, {})]
    /\ UNCHANGED <<config, requirements, sourceOrder, run, crashed, routerVars, layerVars>>

\* A beforeAll whose error does not stop the request.
BeforeAllErrorIgnored ==
    /\ pipe[run].pc = "BEFORE_ALL"
    /\ \E o \in Pick(env.beforeAll, Unset, {"ok", "error"}) :
          /\ env' = [env EXCEPT !.beforeAll = o]
          /\ pipe' = [pipe EXCEPT ![run] =
                        Advance(Called(@, "BEFORE_ALL", 0), run, "BEFORE_ALL")]
    /\ UNCHANGED <<config, requirements, sourceOrder, run, crashed, routerVars, layerVars>>

\* beforeAll: the router-level hook, called for every resolved request.
BeforeAll ==
    /\ pipe[run].pc = "BEFORE_ALL"
    /\ \E o \in Pick(env.beforeAll, Unset, {"ok", "error"}) :
          /\ env' = [env EXCEPT !.beforeAll = o]
          /\ pipe' = [pipe EXCEPT ![run] =
                        LET p == Called(@, "BEFORE_ALL", 0) IN
                        IF o = "error" THEN Fail(p, "MiddlewareError", {})
                        ELSE Advance(p, run, "BEFORE_ALL")]
    /\ UNCHANGED <<config, requirements, sourceOrder, run, crashed, routerVars, layerVars>>

\* An auth stage that calls withAuth for every route, whatever it requires.
AuthForEveryRoute ==
    /\ pipe[run].pc = "AUTH"
    /\ \E o \in Pick(env.auth, Unset, AuthOutcomes) :
          /\ env' = [env EXCEPT !.auth = o]
          /\ pipe' = [pipe EXCEPT ![run] =
                        LET p == Called(@, "AUTH", 0) IN
                        IF AuthDenied(o) THEN Fail(p, "AuthError", {})
                        ELSE Advance(p, run, "AUTH")]
    /\ UNCHANGED <<config, requirements, sourceOrder, run, crashed, routerVars, layerVars>>

\* withAuth, called only when the method's requirements ask for auth.
Auth ==
    /\ pipe[run].pc = "AUTH"
    /\ IF ~requirements[run].auth
       THEN /\ pipe' = [pipe EXCEPT ![run] = Advance(@, run, "AUTH")]
            /\ UNCHANGED env
       ELSE \E o \in Pick(env.auth, Unset, AuthOutcomes) :
               /\ env' = [env EXCEPT !.auth = o]
               /\ pipe' = [pipe EXCEPT ![run] =
                             LET p == Called(@, "AUTH", 0) IN
                             IF AuthDenied(o) THEN Fail(p, "AuthError", {})
                             ELSE Advance(p, run, "AUTH")]
    /\ UNCHANGED <<config, requirements, sourceOrder, run, crashed, routerVars, layerVars>>

\* A before stage that goes through its list from the last hook to the first.
BeforeInReverse ==
    /\ pipe[run].pc = "BEFORE"
    /\ LET n == requirements[run].before
           i == pipe[run].hook + 1
       IN IF n = 0
          THEN /\ pipe' = [pipe EXCEPT ![run] = Advance(@, run, "BEFORE")]
               /\ UNCHANGED env
          ELSE \E e \in Pick(env.beforeErr, -1, 0..n) :
                  /\ env' = [env EXCEPT !.beforeErr = e]
                  /\ pipe' = [pipe EXCEPT ![run] =
                                LET p == Called(@, "BEFORE", n + 1 - i) IN
                                IF e = n + 1 - i THEN Fail(p, "MiddlewareError", {})
                                ELSE IF i = n THEN Advance(p, run, "BEFORE")
                                ELSE [p EXCEPT !.hook = i]]
    /\ UNCHANGED <<config, requirements, sourceOrder, run, crashed, routerVars, layerVars>>

\* The next hook of the before list; a hook that sets an error ends the
\* happy path.
Before ==
    /\ pipe[run].pc = "BEFORE"
    /\ LET n == requirements[run].before
           i == pipe[run].hook + 1
       IN IF n = 0
          THEN /\ pipe' = [pipe EXCEPT ![run] = Advance(@, run, "BEFORE")]
               /\ UNCHANGED env
          ELSE \E e \in Pick(env.beforeErr, -1, 0..n) :
                  /\ env' = [env EXCEPT !.beforeErr = e]
                  /\ pipe' = [pipe EXCEPT ![run] =
                                LET p == Called(@, "BEFORE", i) IN
                                IF e = i THEN Fail(p, "MiddlewareError", {})
                                ELSE IF i = n THEN Advance(p, run, "BEFORE")
                                ELSE [p EXCEPT !.hook = i]]
    /\ UNCHANGED <<config, requirements, sourceOrder, run, crashed, routerVars, layerVars>>

\* Request validation, when the requirements name something to validate:
\* every missing required header is reported.
Validate ==
    /\ pipe[run].pc = "VALIDATE"
    /\ pipe' = [pipe EXCEPT ![run] =
                  IF requirements[run].requiredHeaders = {}
                  THEN Advance(@, run, "VALIDATE")
                  ELSE LET p == Called(@, "VALIDATE", 0)
                           missing == MissingHeaders(requirements[run], env.headers)
                       IN IF missing # {} THEN Fail(p, "ValidationError", missing)
                          ELSE Advance(p, run, "VALIDATE")]
    /\ UNCHANGED <<config, requirements, sourceOrder, env, run, crashed, routerVars, layerVars>>


\* A router that keeps waiting for the handler once the timeout elapsed.
OnTimeoutAwaitsHandler(p) ==
    [p EXCEPT !.pc = "AWAIT", !.late = "pending", !.onTimeout = @ + 1]

\* The timeout elapsed first: the timeout response is produced, onTimeout
\* is called, and the handler is left running.
OnTimeout(p) ==
    Fail([p EXCEPT !.late = "pending", !.onTimeout = @ + 1], "TimeoutError", {})

\* A router that turns the exception into a response without calling onError.
OnThrowWithoutHook(p) == Fail(p, "HandlerError", {})

\* A router that lets the handler's exception out of router.route().
OnThrowEscapes(p) == [p EXCEPT !.thrown = TRUE, !.pc = "THROWN"]

\* The handler threw: the error is caught, onError is called and a generic
\* error response is produced.
OnThrow(p) == Fail([p EXCEPT !.onError = @ + 1], "HandlerError", {})

\* A return path that answers with the default status code.
OnReturnWithDefaultCode(p, kind, cfg, s) ==
    LET q == [p EXCEPT !.response.body = HandlerBody(kind)] IN
    IF ResponseViolates(cfg, kind) THEN Fail(q, "ResponseValidationError", {})
    ELSE Advance(q, s, "HANDLER")

\* The handler returned: the code and the body it set are the response's
\* unless response validation rejects the body.
OnReturn(p, kind, cfg, s) ==
    LET q == [p EXCEPT !.response.body = HandlerBody(kind),
                       !.response.code = HandlerCode] IN
    IF ResponseViolates(cfg, kind) THEN Fail(q, "ResponseValidationError", {})
    ELSE Advance(q, s, "HANDLER")

\* The method function, raced against the effective timeout.
Handler ==
    /\ pipe[run].pc = "HANDLER"
    /\ \E k \in Pick(env.handler, Unset, HandlerKinds),
          d \in Pick(env.duration, 0, Durations) :
          /\ env' = [env EXCEPT !.handler = k, !.duration = d]
          /\ pipe' = [pipe EXCEPT ![run] =
                        LET p == Called(@, "HANDLER", 0) IN
                        IF TimedOut(d, EffectiveTimeout(requirements[run], config))
                        THEN OnTimeout(p)
                        ELSE IF k = "throw" THEN OnThrow(p)
                        ELSE OnReturn(p, k, config, run)]
    /\ UNCHANGED <<config, requirements, sourceOrder, run, crashed, routerVars, layerVars>>

\* An after stage that takes its hooks off the route's list as it calls them.
AfterConsumesList ==
    /\ pipe[run].pc = "AFTER"
    /\ LET n == requirements[run].after
           i == pipe[run].hook + 1
       IN /\ pipe' = [pipe EXCEPT ![run] =
                        IF n = 0 THEN Advance(@, run, "AFTER")
                        ELSE LET p == Called(@, "AFTER", i) IN
                             IF i = n THEN Advance(p, run, "AFTER")
                             ELSE [p EXCEPT !.hook = i]]
          /\ requirements' = [requirements EXCEPT ![run].after = IF i >= n THEN 0 ELSE @]
    /\ UNCHANGED <<config, sourceOrder, env, run, crashed, routerVars, layerVars>>

\* The next hook of the after list.
After ==
    /\ pipe[run].pc = "AFTER"
    /\ LET n == requirements[run].after
           i == pipe[run].hook + 1
       IN pipe' = [pipe EXCEPT ![run] =
                     IF n = 0 THEN Advance(@, run, "AFTER")
                     ELSE LET p == Called(@, "AFTER", i) IN
                          IF i = n THEN Advance(p, run, "AFTER")
                          ELSE [p EXCEPT !.hook = i]]
    /\ UNCHANGED <<config, requirements, sourceOrder, env, run, crashed, routerVars, layerVars>>

\* An afterAll that is called only for requests that did not fail.
AfterAllOnSuccessOnly ==
    /\ pipe[run].pc = "AFTER_ALL"
    /\ pipe' = [pipe EXCEPT ![run] =
                  IF pipe[run].response.hasErrors THEN [@ EXCEPT !.pc = "ERROR"]
                  ELSE [Called(@, "AFTER_ALL", 0) EXCEPT !.pc = "DONE"]]
    /\ UNCHANGED <<config, requirements, sourceOrder, env, run, crashed, routerVars, layerVars>>

\* afterAll, then the response is final.
AfterAll ==
    /\ pipe[run].pc = "AFTER_ALL"
    /\ pipe' = [pipe EXCEPT ![run] =
                  [Called(@, "AFTER_ALL", 0) EXCEPT
                     !.pc = IF pipe[run].response.hasErrors THEN "ERROR"
                            ELSE "DONE"]]
    /\ UNCHANGED <<config, requirements, sourceOrder, env, run, crashed, routerVars, layerVars>>

\* A late settlement that still writes the handler's result to the response.
SettleLateOverwrites(p, kind) ==
    [p EXCEPT !.late = p.pc, !.response.body = HandlerBody(kind)]

\* A handler that lost the race settles after all (it returns, or throws
\* when kind is "throw"): the result is dropped, and the run remembers at
\* which point of the pipeline that happened.
SettleLate(p, kind) == [p EXCEPT !.late = p.pc]

\* The rejection of a handler that lost the race is swallowed.
RejectionUnhandled(p, kind) == FALSE

LateSettle ==
    /\ \E s \in Surfaces :
          /\ pipe[s].late = "pending"
          /\ pipe' = [pipe EXCEPT ![s] = SettleLate(@, env.handler)]
          /\ crashed' = (crashed \/ RejectionUnhandled(pipe[s], env.handler))
    /\ UNCHANGED <<config, requirements, sourceOrder, env, run, routerVars, layerVars>>

\* The same event goes to the endpoint class whose method carries the
\* decorators that correspond to the requirements object, written in any
\* order; its requirements are read from the decorators' metadata.
StartDecorator ==
    /\ run = "functional"
    /\ pipe[run].pc \in Terminal
    /\ \E w \in Perms(Decorators(requirements["functional"])) :
          /\ sourceOrder' = IF InExecutionOrder(w) THEN "execution" ELSE "other"
          /\ requirements' = [requirements EXCEPT !["decorator"] = Reconcile(w)]
    /\ run' = "decorator"
    /\ pipe' = [pipe EXCEPT !["decorator"].pc = "RESOLVE"]
    /\ UNCHANGED <<config, env, crashed, routerVars, layerVars>>

Next ==
    \/ Resolve
    \/ BeforeAll
    \/ Auth
    \/ Before
    \/ Validate
    \/ Handler
    \/ After
    \/ AfterAll
    \/ LateSettle
    \/ StartDecorator

Spec == Init /\ [][Next]_vars

\* The router awaits each stage in turn, so a stage that can run does run;
\* nothing makes a handler that lost the race against the timeout settle.
Stages ==
    Resolve \/ BeforeAll \/ Auth \/ Before \/ Validate \/ Handler \/ After
    \/ AfterAll

\* Requests to routes whose handler is raced against a timeout, the
\* route's own or the router's; nothing of the request is validated.
TimedInit ==
    /\ Init
    /\ EffectiveTimeout(requirements["functional"], config) # 0
    /\ requirements["functional"].requiredHeaders = {}
    /\ ~config.validateResponse

SpecTimed == TimedInit /\ [][Next]_vars /\ WF_vars(Stages)

(* --------------------------- route resolution ------------------------- *)

\* The most requests one process lifetime serves.
MaxRequests == 3

\* The pipeline is idle while requests are only routed.
PipelineIdle ==
    /\ config = [timeout |-> 0, validateResponse |-> FALSE]
    /\ requirements = [s \in Surfaces |-> NoRequirements]
    /\ sourceOrder = "none"
    /\ env = NoEnv
    /\ run = "functional"
    /\ pipe = [s \in Surfaces |-> NewPipe]
    /\ crashed = FALSE

\* The router is built over the project's endpoint files, empty cache.
RoutingInit ==
    /\ PipelineIdle
    /\ LayersIdle
    /\ routes \in RouteTables
    /\ cacheMode \in CacheModes
    /\ cache = EmptyMap
    /\ seen = EmptyMap
    /\ last = NoRequest

\* A lookup that takes a cached file whose route matches the path.
LookupByPattern(c, key) ==
    {c[k] : k \in {k \in DOMAIN c : k[1] = key[1] /\ Matches(c[k], key[2])}}

\* The cached endpoint file of a (method, path) key, if any.
Lookup(c, key) == IF key \in DOMAIN c THEN {c[key]} ELSE {}

\* A cache that keeps every resolved route, whatever the mode.
CacheableInEveryMode(mode, file) == TRUE

\* cache: which resolved routes are kept.
Cacheable(mode, file) ==
    \/ mode = "all"
    \/ mode = "static" /\ DynamicCount(file) = 0
    \/ mode = "dynamic" /\ DynamicCount(file) > 0

\* router.route(event), as far as the endpoint's method function: a cached
\* route is used as it is, any other is resolved from the route table and
\* kept when the cache mode says so.
Route ==
    /\ last.n < MaxRequests
    /\ \E m \in Methods, path \in Paths :
          LET key == <<m, path>>
              hit == Lookup(cache, key)
              res == IF hit # {} THEN [outcome |-> "ok", handlers |-> hit]
                     ELSE Resolution(routes, m, path)
              keep == {f \in res.handlers : hit = {} /\ Cacheable(cacheMode, f)}
          IN /\ cache' = IF keep = {} THEN cache
                         ELSE (key :> CHOOSE f \in keep : TRUE) @@ cache
             /\ seen' = IF key \in DOMAIN seen THEN seen ELSE (key :> res) @@ seen
             /\ last' = [method |-> m, path |-> path, outcome |-> res.outcome,
                         handlers |-> res.handlers,
                         params |-> IF res.handlers = {} THEN EmptyMap
                                    ELSE PathParameters(CHOOSE f \in res.handlers : TRUE,
                                                        path),
                         hit |-> hit # {},
                         repeat |-> key \in DOMAIN seen, n |-> last.n + 1]
    /\ UNCHANGED <<routes, cacheMode, pipeVars, layerVars>>

RoutingNext == Route

SpecRouting == RoutingInit /\ [][RoutingNext]_vars

(* ------------------------------ validation ---------------------------- *)

\* A request arrives at the validation stage of a route.
ValidationInit ==
    /\ PipelineIdle
    /\ RouterIdle
    /\ stream = NoStream
    /\ loading = NoLoading
    /\ timed = NoTiming
    /\ rendered = NoRendering
    /\ \E required \in RequestShapes, present \in RequestShapes :
          validation = [NoValidation EXCEPT !.required = required,
                                            !.present = present,
                                            !.next = 1,
                                            !.outcome = "pending"]

\* A location is checked when the requirements name something there.
Applicable(v, loc) == v.required[loc] # {}

\* A validation stage that runs no further check after one has failed.
RunCheckUntilFailure ==
    /\ validation.next \in DOMAIN Locations
    /\ LET loc == Locations[validation.next] IN
       validation' =
          IF Applicable(validation, loc) /\ validation.violations = {}
          THEN [validation EXCEPT
                   !.next = @ + 1,
                   !.checked = Append(@, loc),
                   !.violations = @ \cup Check(loc, validation.required,
                                               validation.present)]
          ELSE [validation EXCEPT !.next = @ + 1]
    /\ UNCHANGED <<pipeVars, routerVars, rendered, timed, loading, stream>>

\* The next applicable check runs, whatever the earlier ones found.
RunCheck ==
    /\ validation.next \in DOMAIN Locations
    /\ LET loc == Locations[validation.next] IN
       validation' =
          IF Applicable(validation, loc)
          THEN [validation EXCEPT
                   !.next = @ + 1,
                   !.checked = Append(@, loc),
                   !.violations = @ \cup Check(loc, validation.required,
                                               validation.present)]
          ELSE [validation EXCEPT !.next = @ + 1]
    /\ UNCHANGED <<pipeVars, routerVars, rendered, timed, loading, stream>>

\* All checks ran: the request passes, or fails with one ValidationError
\* that carries every violation found.
FinishValidation ==
    /\ validation.next = Len(Locations) + 1
    /\ validation.outcome = "pending"
    /\ validation' =
          [validation EXCEPT
              !.outcome = IF validation.violations = {} THEN "pass"
                          ELSE "ValidationError",
              !.body = validation.violations]
    /\ UNCHANGED <<pipeVars, routerVars, rendered, timed, loading, stream>>

ValidationNext == RunCheck \/ FinishValidation

SpecValidation == ValidationInit /\ [][ValidationNext]_vars

(* ---------------------------- error output --------------------------- *)

MaxFailures == 2

ErrorsInit ==
    /\ PipelineIdle
    /\ RouterIdle
    /\ stream = NoStream
    /\ loading = NoLoading
    /\ timed = NoTiming
    /\ validation = NoValidation
    /\ rendered \in {[NoRendering EXCEPT !.outputError = o] : o \in BOOLEAN}

\* A request fails inside the service; the router turns the failure into
\* the error response the client receives.
RequestFails ==
    /\ Len(rendered.failures) < MaxFailures
    /\ \E f \in Failures :
          rendered' =
              [rendered EXCEPT
                  !.failures = Append(@, f),
                  !.bodies = Append(@, RenderError(f.kind, f.internal,
                                                   rendered.outputError))]
    /\ UNCHANGED <<pipeVars, routerVars, validation, timed, loading, stream>>

ErrorsNext == RequestFails

SpecErrors == ErrorsInit /\ [][ErrorsNext]_vars


(* ------------------------- time spent in stages ----------------------- *)

ClockInit ==
    /\ PipelineIdle
    /\ RouterIdle
    /\ stream = NoStream
    /\ loading = NoLoading
    /\ validation = NoValidation
    /\ rendered = NoRendering
    /\ timed \in {[NoTiming EXCEPT !.timeout = t, !.stage = 1] : t \in Timeouts}

\* The request spends some time in its next stage. The timeout belongs to
\* the handler: the handler alone is raced against it, and a handler that
\* loses the race leaves the happy path for afterAll.
RunStage ==
    /\ timed.stage \in DOMAIN FunctionalOrder
    /\ \E d \in StageTimes :
          LET st == FunctionalOrder[timed.stage]
              t == [timed EXCEPT
                      !.spent = [x \in DOMAIN @ \cup {st} |-> IF x = st THEN d ELSE @[x]]]
          IN timed' =
                IF st = "HANDLER" /\ TimedOut(d, timed.timeout)
                THEN [t EXCEPT !.stage = IndexOf(FunctionalOrder, "AFTER_ALL"),
                               !.outcome = "timeout"]
                ELSE IF st = "AFTER_ALL"
                THEN [t EXCEPT !.stage = @ + 1,
                               !.outcome = IF @ = "none" THEN "ok" ELSE @]
                ELSE [t EXCEPT !.stage = @ + 1]
    /\ UNCHANGED <<pipeVars, routerVars, validation, rendered, loading, stream>>

ClockNext == RunStage

SpecClock == ClockInit /\ [][ClockNext]_vars

(* ------------------------ concurrent invocations ---------------------- *)

\* The invocations one process serves at the same time.
MaxInvocations == 2

Invocations == 1..MaxInvocations

NoInvocation == [pc |-> "idle", key |-> <<>>, hit |-> {}, handlers |-> {}]

\* Every endpoint file of the project, each with both method functions.
AllRoutes == [f \in RouteFiles |-> Methods]

LoadingInit ==
    /\ PipelineIdle
    /\ validation = NoValidation
    /\ stream = NoStream
    /\ rendered = NoRendering
    /\ timed = NoTiming
    /\ routes = AllRoutes
    /\ cacheMode \in CacheModes
    /\ cache = EmptyMap
    /\ seen = EmptyMap
    /\ last = NoRequest
    /\ loading = [inv |-> [i \in Invocations |-> NoInvocation], writes |-> EmptyMap]

\* An invocation takes a request and reads the cache; on a miss it goes on
\* to resolve the route and load the module, which takes a while.
Begin(i) ==
    /\ loading.inv[i].pc = "idle"
    /\ \E m \in Methods, path \in Paths :
          LET key == <<m, path>>
              hit == Lookup(cache, key)
          IN loading' =
                [loading EXCEPT
                    !.inv[i] = [pc |-> IF hit = {} THEN "resolving" ELSE "done",
                                key |-> key, hit |-> hit, handlers |-> hit]]
    /\ UNCHANGED <<pipeVars, routerVars, validation, rendered, timed, stream>>

\* A population that writes the entry whether or not one is there already.
PopulateUnguarded(i) ==
    /\ loading.inv[i].pc = "resolving"
    /\ LET key == loading.inv[i].key
           res == Resolution(routes, key[1], key[2])
           keep == {f \in res.handlers : Cacheable(cacheMode, f)}
       IN /\ cache' = IF keep # {} THEN (key :> CHOOSE f \in keep : TRUE) @@ cache
                      ELSE cache
          /\ loading' =
                [loading EXCEPT
                    !.inv[i].pc = "done",
                    !.inv[i].handlers = res.handlers,
                    !.writes = IF keep = {} THEN @
                               ELSE (key :> (IF key \in DOMAIN @ THEN @[key] ELSE 0) + 1) @@ @]
    /\ UNCHANGED <<pipeVars, routes, cacheMode, seen, last, validation, rendered, timed, stream>>

\* The invocation has resolved its route: the entry is written unless
\* another invocation populated the key in the meantime, whose entry is
\* then the one that is used.
Populate(i) ==
    /\ loading.inv[i].pc = "resolving"
    /\ LET key == loading.inv[i].key
           res == Resolution(routes, key[1], key[2])
           keep == {f \in res.handlers : Cacheable(cacheMode, f)}
           write == keep # {} /\ key \notin DOMAIN cache
       IN /\ cache' = IF write THEN (key :> CHOOSE f \in keep : TRUE) @@ cache
                      ELSE cache
          /\ loading' =
                [loading EXCEPT
                    !.inv[i].pc = "done",
                    !.inv[i].handlers = IF key \in DOMAIN cache THEN {cache[key]}
                                        ELSE res.handlers,
                    !.writes = IF write THEN (key :> 1) @@ @ ELSE @]
    /\ UNCHANGED <<pipeVars, routes, cacheMode, seen, last, validation, rendered, timed, stream>>

LoadingNext == \E i \in Invocations : Begin(i) \/ Populate(i)

SpecLoading == LoadingInit /\ [][LoadingNext]_vars

(* ----------------------------- stream events -------------------------- *)

\* The most records one event holds.
MaxRecords == 2

StreamInit ==
    /\ PipelineIdle
    /\ RouterIdle
    /\ validation = NoValidation
    /\ rendered = NoRendering
    /\ timed = NoTiming
    /\ loading = NoLoading
    /\ \E source \in Sources, total \in 0..MaxRecords :
          stream = [NoStream EXCEPT !.source = source, !.total = total,
                                    !.pc = "running"]

\* for (const awsRecord of records): the next record of the event goes
\* through the loop body; an exception that leaves the body ends the handler.
NextRecord ==
    /\ stream.pc = "running"
    /\ Len(stream.done) < stream.total
    /\ \E rec \in StreamRecords(stream.source) :
          LET out == CaughtRecord(stream.source, rec) IN
          stream' = [stream EXCEPT
                        !.records = Append(@, rec),
                        !.done = Append(@, out),
                        !.pc = IF out.caught = "escapes" THEN "rejected" ELSE @]
    /\ UNCHANGED <<pipeVars, routerVars, validation, rendered, timed, loading>>

\* The loop is over: 'Finished processing all records', and the handler's
\* promise resolves.
Finished ==
    /\ stream.pc = "running"
    /\ Len(stream.done) = stream.total
    /\ stream' = [stream EXCEPT !.pc = "resolved"]
    /\ UNCHANGED <<pipeVars, routerVars, validation, rendered, timed, loading>>

StreamNext == NextRecord \/ Finished

SpecStream == StreamInit /\ [][StreamNext]_vars

(* ------------------------- properties: ordering ----------------------- *)

IsPrefix(a, b) == Len(a) <= Len(b) /\ a = SubSeq(b, 1, Len(a))

\* The n hooks of a stage, in registration order.
Hooks(st, n) == [i \in 1..n |-> Entry(st, i)]

One(st) == <<Entry(st, 0)>>

\* The calls of a trace that belong to the endpoint, not to the router.
EndpointCalls(t) ==
    LET IsEndpoint(e) == e.stage \notin {"BEFORE_ALL", "AFTER_ALL"}
    IN SelectSeq(t, IsEndpoint)

StagesOf(t) == {t[i].stage : i \in DOMAIN t}

\* beforeAll, auth when required, the before hooks, validation when there
\* is something to validate, the handler, the after hooks, afterAll.
FunctionalCalls(r) ==
    One("BEFORE_ALL") \o (IF r.auth THEN One("AUTH") ELSE <<>>)
    \o Hooks("BEFORE", r.before)
    \o (IF r.requiredHeaders # {} THEN One("VALIDATE") ELSE <<>>)
    \o One("HANDLER") \o Hooks("AFTER", r.after) \o One("AFTER_ALL")

\* C1: a functional-pattern request on which no stage sets an error runs
\* beforeAll, auth (when the route requires it), the before hooks,
\* validation, the handler, the after hooks and afterAll, each once and in
\* that order, and ends in DONE.
C1_FunctionalOrder ==
    LET p == pipe["functional"]
        calls == FunctionalCalls(requirements["functional"])
    IN /\ ~p.response.hasErrors => IsPrefix(p.trace, calls)
       /\ p.pc = "DONE" <=> (~p.response.hasErrors /\ p.trace = calls)

C1_Witness ==
    /\ pipe["functional"].pc = "DONE"
    /\ requirements["functional"].auth
    /\ requirements["functional"].before > 0
    /\ requirements["functional"].after > 0
    /\ requirements["functional"].requiredHeaders # {}

\* @Before, @Auth, @Validate, the handler, @After.
DecoratedCalls(r) ==
    Hooks("BEFORE", r.before) \o (IF r.auth THEN One("AUTH") ELSE <<>>)
    \o (IF r.requiredHeaders # {} THEN One("VALIDATE") ELSE <<>>)
    \o One("HANDLER") \o Hooks("AFTER", r.after)

AuthFirstCalls(r) ==
    (IF r.auth THEN One("AUTH") ELSE <<>>)
    \o (IF r.requiredHeaders # {} THEN One("VALIDATE") ELSE <<>>)
    \o Hooks("BEFORE", r.before)
    \o One("HANDLER") \o Hooks("AFTER", r.after)

\* C3: combined decorators on one method execute with @Auth first, then
\* @Validate, then @Before, then the handler, then @After.
C3_AuthValidateBefore ==
    pipe["decorator"].pc = "DONE" =>
        EndpointCalls(pipe["decorator"].trace) = AuthFirstCalls(requirements["decorator"])

\* C4: the same route configured through a requirements object and through
\* decorators runs the same stages in the same order and gives the same
\* response for the same event.
C4_SurfacesEquivalent ==
    (run = "decorator" /\ pipe["decorator"].pc \in Terminal) =>
        /\ pipe["decorator"].trace = pipe["functional"].trace
        /\ pipe["decorator"].response = pipe["functional"].response
        /\ pipe["decorator"].pc = pipe["functional"].pc


(* ---------------------- properties: short circuits -------------------- *)

HandlerInvoked(p) == "HANDLER" \in StagesOf(p.trace)

LacksRequiredHeader(s) ==
    /\ env.resolution = "ok"
    /\ requirements[s].requiredHeaders # {}
    /\ requirements[s].requiredHeaders \ env.headers # {}

\* C6 as stated: a request that lacks any header listed in the route's
\* requiredHeaders ends with a ValidationError response that names every
\* missing header, and the handler is never invoked.
C6_MissingHeaderAlwaysValidationError ==
    \A s \in Surfaces :
        (pipe[s].pc \in Terminal /\ LacksRequiredHeader(s)) =>
            /\ pipe[s].errKind = "ValidationError"
            /\ pipe[s].response.body.detail = requirements[s].requiredHeaders \ env.headers
            /\ ~HandlerInvoked(pipe[s])

\* C6 as amended: a request that lacks a required header never reaches the
\* handler and ends in an error; unless beforeAll, auth or a before hook
\* ended it first with an error of its own, the error is a ValidationError
\* that names every missing header.
C6_MissingHeader ==
    \A s \in Surfaces :
        LacksRequiredHeader(s) =>
            /\ ~HandlerInvoked(pipe[s])
            /\ pipe[s].pc # "DONE"
            /\ pipe[s].pc \in Terminal =>
                 /\ pipe[s].errKind \in {"ValidationError", "MiddlewareError", "AuthError"}
                 /\ pipe[s].errKind = "ValidationError" <=> "VALIDATE" \in StagesOf(pipe[s].trace)
                 /\ pipe[s].errKind = "ValidationError" =>
                      pipe[s].response.body =
                          ErrorBody("ValidationError",
                                    requirements[s].requiredHeaders \ env.headers)

C6_Witness ==
    /\ LacksRequiredHeader("functional")
    /\ env.headers = {}
    /\ pipe["functional"].pc = "ERROR"
    /\ pipe["functional"].errKind = "ValidationError"
    /\ pipe["functional"].response.body.detail = HeaderNames

\* C7: a handler that has not resolved when the effective timeout elapses
\* yields a TimeoutError response; the effective timeout is the route's own
\* whenever it is set, the router's global timeout otherwise.
C7_EffectiveTimeout ==
    \A s \in Surfaces :
        LET route == requirements[s].timeout
            eff == IF route # 0 THEN route ELSE config.timeout
        IN HandlerInvoked(pipe[s]) =>
              IF eff # 0 /\ env.duration > eff
              THEN pipe[s].errKind = "TimeoutError" /\ pipe[s].response.hasErrors
              ELSE pipe[s].errKind # "TimeoutError"

C7_Witness ==
    \E s \in Surfaces :
        /\ requirements[s].timeout # 0
        /\ config.timeout # 0
        /\ requirements[s].timeout < env.duration
        /\ env.duration <= config.timeout
        /\ pipe[s].pc = "ERROR"
        /\ pipe[s].errKind = "TimeoutError"

\* The route's longer timeout spares a handler the global one would stop.
C7_OverrideWitness ==
    \E s \in Surfaces :
        /\ HandlerInvoked(pipe[s])
        /\ config.timeout # 0
        /\ config.timeout < env.duration
        /\ env.duration <= requirements[s].timeout
        /\ pipe[s].pc = "DONE"


(* ------------------- properties: timeouts and outcomes ---------------- *)

\* C8: once the timeout response of a request is final, a handler that
\* settles late (it returns or it throws) changes nothing of that response
\* and does not crash the process.
C8_LateSettlementIgnored ==
    [][\A s \in Surfaces :
          pipe[s].errKind = "TimeoutError" =>
              /\ pipe'[s].response = pipe[s].response
              /\ pipe'[s].errKind = "TimeoutError"
              /\ ~crashed']_vars

C8_Witness ==
    \E s \in Surfaces :
        /\ pipe[s].errKind = "TimeoutError"
        /\ pipe[s].late = "ERROR"
        /\ env.handler = "throw"
        /\ pipe[s].response.body = ErrorBody("TimeoutError", {})
        /\ ~crashed

\* C9: with validateResponse on, a handler whose body violates the
\* response schema yields a ResponseValidationError response, and the
\* unvalidated body is never what the caller gets.
C9_ResponseValidation ==
    \A s \in Surfaces :
        config.validateResponse =>
            /\ pipe[s].response.body # HandlerBody("invalid")
            /\ (HandlerInvoked(pipe[s]) /\ env.handler = "invalid"
                  /\ pipe[s].errKind # "TimeoutError") =>
                   /\ pipe[s].errKind = "ResponseValidationError"
                   /\ pipe[s].response.hasErrors
                   /\ pipe[s].response.body.kind = "ResponseValidationError"

C9_Witness ==
    \E s \in Surfaces :
        /\ config.validateResponse
        /\ env.handler = "invalid"
        /\ pipe[s].pc = "ERROR"
        /\ pipe[s].errKind = "ResponseValidationError"

\* A response a caller can use: a status code, and a body that is the
\* handler's on success and names the error otherwise.
WellFormed(r) ==
    /\ r.code \in 100..599
    /\ IF r.hasErrors
       THEN r.code >= 400 /\ r.body.kind \in ErrorKinds
       ELSE r.code < 400 /\ r.body.kind \in {"handler", "handler-invalid"}

\* One step of the pipeline of the run in progress.
RunStep ==
    Resolve \/ BeforeAll \/ Auth \/ Before \/ Validate \/ Handler \/ After \/ AfterAll

C10_Outcome ==
    \A s \in Surfaces :
        /\ ~pipe[s].thrown
        /\ pipe[s].pc \in Terminal =>
             /\ WellFormed(pipe[s].response)
             /\ pipe[s].pc = "DONE" <=> pipe[s].errKind = "none"
             /\ pipe[s].pc = "ERROR" <=> pipe[s].errKind \in ErrorKinds
             /\ pipe[s].pc = "ERROR" <=> pipe[s].response.hasErrors
        /\ (s = run /\ pipe[s].pc \notin Terminal) => ENABLED RunStep

C10_Final ==
    \A s \in Surfaces :
        pipe[s].pc \in Terminal =>
            /\ pipe'[s].pc = pipe[s].pc
            /\ pipe'[s].response = pipe[s].response

CallsOf(t, st) == Cardinality({i \in DOMAIN t : t[i].stage = st})

Matching ==
    {f \in DOMAIN routes :
        /\ Len(f) = Len(last.path)
        /\ \A i \in DOMAIN f : f[i] \in ParamSegments \/ f[i] = last.path[i]}

Params(f) == {i \in DOMAIN f : f[i] \in ParamSegments}

\* The matching files that no other matching file beats with fewer params.
MostSpecific ==
    {f \in Matching :
        \A g \in Matching : Cardinality(Params(f)) <= Cardinality(Params(g))}

C13_ConsistentResolution ==
    last.n > 0 =>
        LET key == <<last.method, last.path>>
            res == [outcome |-> last.outcome, handlers |-> last.handlers]
        IN /\ res = seen[key]
           /\ res = Resolution(routes, last.method, last.path)
           /\ \A k \in DOMAIN cache :
                 Resolution(routes, k[1], k[2]) = [outcome |-> "ok", handlers |-> {cache[k]}]

C13_Witness ==
    /\ last.repeat
    /\ last.hit
    /\ Cardinality(Matching) = 2
    /\ last.handlers = {<<"farm", "field">>}
    /\ \E k \in DOMAIN cache : cache[k] = <<"farm", "{farmId}">>

\* C14: a request whose path matches no registered route ends in NotFound,
\* one whose path resolves to a route (the static one where a static and a
\* dynamic route both match) whose file has no function for the request's
\* method ends in MethodNotAllowed; in neither case is a handler invoked.
C14_UnresolvedRequests ==
    last.n > 0 =>
        /\ last.outcome = "NotFound" <=> Matching = {}
        /\ last.outcome = "MethodNotAllowed" <=>
              (Matching # {} /\ \A f \in MostSpecific : last.method \notin routes[f])
        /\ last.outcome # "ok" => last.handlers = {}

C14_Witness ==
    /\ last.outcome = "MethodNotAllowed"
    /\ Cardinality(Matching) = 2
    /\ \E f \in Matching : last.method \in routes[f]
    /\ last.handlers = {}
    /\ \E k \in DOMAIN seen : seen[k].outcome = "NotFound"


(* ----------------------- properties: validation ----------------------- *)

\* Every required field that the request lacks, location by location.
AllViolations ==
    UNION {{[location |-> loc, field |-> f] :
               f \in validation.required[loc] \ validation.present[loc]} :
           loc \in DOMAIN validation.required}

\* C15: validation runs every applicable check (headers, query, path,
\* body), also after one of them failed, and a request with several
\* violations ends with one ValidationError that contains all of them.
C15_ValidationAggregates ==
    validation.outcome \in {"pass", "ValidationError"} =>
        /\ validation.checked =
              SelectSeq(Locations, LAMBDA loc : validation.required[loc] # {})
        /\ validation.body = AllViolations
        /\ validation.outcome = "ValidationError" <=> validation.body # {}

C15_Witness ==
    /\ validation.outcome = "ValidationError"
    /\ validation.checked = Locations
    /\ {v.location : v \in validation.body} = {"headers", "query", "path", "body"}
    /\ Cardinality(validation.body) = 5


(* ------------------------ properties: responses ----------------------- *)

\* C16: a minimal valid request to a route with no requirements gets a
\* response whose status code and body are exactly what the handler set;
\* no stage changes them between the handler's return and the final
\* response.
C16_HandlerResponseUnmodified ==
    \A s \in Surfaces :
        (requirements[s] = NoRequirements /\ HandlerInvoked(pipe[s])
           /\ ~pipe[s].response.hasErrors) =>
            /\ pipe[s].response.code = 201
            /\ pipe[s].response.body =
                  [kind |-> IF env.handler = "ok" THEN "handler" ELSE "handler-invalid",
                   detail |-> {}]
            /\ pipe[s].pc \in {"AFTER", "AFTER_ALL", "DONE"}

C16_Witness ==
    /\ requirements["functional"] = NoRequirements
    /\ config.timeout = 0
    /\ env.handler = "ok"
    /\ pipe["functional"].pc = "DONE"
    /\ pipe["functional"].trace = <<Entry("BEFORE_ALL", 0), Entry("HANDLER", 0), Entry("AFTER_ALL", 0)>>
    /\ pipe["functional"].response = [code |-> 201, body |-> HandlerBody("ok"), hasErrors |-> FALSE]


\* C17: an exception thrown by the handler is caught and turned into a
\* generic error response; onError is called exactly once for it, before
\* the response is final, and never for a validation error.
C17_OnError ==
    \A s \in Surfaces :
        LET p == pipe[s] IN
        /\ (HandlerInvoked(p) /\ env.handler = "throw" /\ p.errKind # "TimeoutError") =>
              /\ p.errKind = "HandlerError"
              /\ p.onError = 1
              /\ p.response = [code |-> 500, body |-> [kind |-> "HandlerError", detail |-> {}],
                               hasErrors |-> TRUE]
              /\ ~p.thrown
        /\ p.errKind # "HandlerError" => p.onError = 0

C17_Witness ==
    /\ env.handler = "throw"
    /\ pipe["functional"].pc = "AFTER_ALL"
    /\ pipe["functional"].errKind = "HandlerError"
    /\ pipe["functional"].onError = 1

\* A request that failed validation went by without onError.
C17_ValidationWitness ==
    \E s \in Surfaces :
        /\ pipe[s].pc = "ERROR"
        /\ pipe[s].errKind = "ValidationError"
        /\ pipe[s].onError = 0


(* ----------------------- properties: error output --------------------- *)

\* C18: with outputError false the body of an error response does not
\* depend on the internal error detail: two requests failing with the same
\* error kind and different internal messages receive the same body;
\* an internal message appears in a body only when outputError is true.
C18_ErrorOutput ==
    /\ \A i, j \in DOMAIN rendered.bodies :
          (~rendered.outputError
             /\ rendered.failures[i].kind = rendered.failures[j].kind) =>
              rendered.bodies[i] = rendered.bodies[j]
    /\ \A i \in DOMAIN rendered.bodies :
          rendered.bodies[i].message \in Messages => rendered.outputError

C18_Witness ==
    /\ ~rendered.outputError
    /\ Len(rendered.bodies) = 2
    /\ rendered.failures[1].kind = rendered.failures[2].kind
    /\ rendered.failures[1].internal # rendered.failures[2].internal
    /\ rendered.bodies[1] = rendered.bodies[2]

\* With outputError true the internal message is in the body.
C18_DetailedWitness ==
    /\ rendered.outputError
    /\ Len(rendered.bodies) = 1
    /\ rendered.bodies[1].message = rendered.failures[1].internal


(* ---------------------- properties: authentication -------------------- *)

\* The stages of surface s that run ahead of st.
Ahead(s, st) == {Order(s)[i] : i \in 1..(IndexOf(Order(s), st) - 1)}

\* C19 as stated: withAuth is invoked for a resolved request if and only if
\* the method's requirements request authentication.
C19_AuthIffRequired ==
    \A s \in Surfaces :
        (pipe[s].pc \in Terminal /\ env.resolution = "ok") =>
            ("AUTH" \in StagesOf(pipe[s].trace) <=> requirements[s].auth)

\* C19: withAuth is never called when the method's requirements do not
\* request authentication; when they do, it is called exactly once unless a
\* stage ahead of AUTH set an error, and then the request never went past
\* that stage.
C19_WithAuth ==
    \A s \in Surfaces :
        LET p == pipe[s]
            called == CallsOf(p.trace, "AUTH")
        IN /\ called <= 1
           /\ ~requirements[s].auth => called = 0
           /\ (requirements[s].auth /\ called = 0) =>
                 /\ ~HandlerInvoked(p)
                 /\ StagesOf(p.trace) \subseteq Ahead(s, "AUTH") \cup {"AFTER_ALL"}
                 /\ p.pc \in Ahead(s, "AUTH") \cup {"AUTH"} => ~p.response.hasErrors
                 /\ p.pc \notin Ahead(s, "AUTH") \cup {"AUTH", "RESOLVE", "IDLE"} =>
                       p.response.hasErrors

C19_Witness ==
    /\ requirements["functional"].auth
    /\ env.auth = "allow"
    /\ pipe["functional"].pc = "DONE"
    /\ CallsOf(pipe["functional"].trace, "AUTH") = 1
    /\ HandlerInvoked(pipe["functional"])

\* A route without auth ran to the end and withAuth was not called.
C19_SkippedWitness ==
    /\ ~requirements["functional"].auth
    /\ pipe["functional"].pc = "DONE"
    /\ HandlerInvoked(pipe["functional"])
    /\ CallsOf(pipe["functional"].trace, "AUTH") = 0


(* ------------------------ properties: middleware ---------------------- *)

\* The before hooks of a trace, by their place in the before list.
BeforeHooksCalled(t) == {t[i].hook : i \in {j \in DOMAIN t : t[j].stage = "BEFORE"}}

\* C20: when beforeAll or a before hook sets an error on the response the
\* pipeline goes to ERROR and the handler is never invoked; after an error
\* of beforeAll no stage of the endpoint runs, AUTH included.
C20_MiddlewareError ==
    \A s \in Surfaces :
        LET p == pipe[s] IN
        /\ ("BEFORE_ALL" \in StagesOf(p.trace) /\ env.beforeAll = "error") =>
              /\ p.errKind = "MiddlewareError"
              /\ EndpointCalls(p.trace) = <<>>
        /\ (env.beforeErr > 0 /\ env.beforeErr \in BeforeHooksCalled(p.trace)) =>
              /\ p.errKind = "MiddlewareError"
              /\ \A h \in BeforeHooksCalled(p.trace) : h <= env.beforeErr
        /\ p.errKind = "MiddlewareError" =>
              /\ ~HandlerInvoked(p)
              /\ p.response.hasErrors
              /\ p.pc \in {"AFTER_ALL", "ERROR"}
        /\ p.pc \notin {"IDLE", "RESOLVE", "BEFORE_ALL"} /\ ~p.response.hasErrors =>
              env.beforeAll = "ok"

C20_Witness ==
    /\ requirements["functional"].before = 2
    /\ env.beforeErr = 1
    /\ pipe["functional"].pc = "ERROR"
    /\ pipe["functional"].errKind = "MiddlewareError"
    /\ BeforeHooksCalled(pipe["functional"].trace) = {1}
    /\ ~HandlerInvoked(pipe["functional"])

\* beforeAll set an error: the request ended in ERROR with no stage of the
\* endpoint called.
C20_BeforeAllWitness ==
    /\ env.beforeAll = "error"
    /\ requirements["functional"].auth
    /\ pipe["functional"].pc = "ERROR"
    /\ StagesOf(pipe["functional"].trace) = {"BEFORE_ALL", "AFTER_ALL"}


(* ------------------------ properties: hook lists ---------------------- *)

\* The places of the calls of stage st in a trace.
PositionsOf(t, st) == {i \in DOMAIN t : t[i].stage = st}

\* The hooks of stage st in the order a trace called them.
HooksOf(t, st) ==
    LET IsStage(e) == e.stage = st
        sel == SelectSeq(t, IsStage)
    IN [i \in DOMAIN sel |-> sel[i].hook]

FirstHooks(k) == [i \in 1..k |-> i]

\* C21: the hooks of a before list are called in the listed order, each
\* once and one at a time, all of them before the handler; the hooks of an
\* after list are called in the listed order, all of them after the handler.
C21_HookLists ==
    \A s \in Surfaces :
        LET p == pipe[s]
            t == p.trace
            before == HooksOf(t, "BEFORE")
            after == HooksOf(t, "AFTER")
        IN /\ Len(before) <= requirements[s].before
           /\ before = FirstHooks(Len(before))
           /\ Len(after) <= requirements[s].after
           /\ after = FirstHooks(Len(after))
           /\ p.pc = "BEFORE" => p.hook = Len(before)
           /\ p.pc = "AFTER" => p.hook = Len(after)
           /\ HandlerInvoked(p) =>
                 /\ before = FirstHooks(requirements[s].before)
                 /\ \A i \in PositionsOf(t, "BEFORE"), h \in PositionsOf(t, "HANDLER") : i < h
           /\ after # <<>> =>
                 /\ HandlerInvoked(p)
                 /\ \A i \in PositionsOf(t, "AFTER"), h \in PositionsOf(t, "HANDLER") : h < i
           /\ p.pc = "DONE" => after = FirstHooks(requirements[s].after)

C21_Witness ==
    /\ requirements["decorator"].before = 2
    /\ requirements["decorator"].after = 2
    /\ pipe["decorator"].pc = "DONE"
    /\ HooksOf(pipe["decorator"].trace, "BEFORE") = <<1, 2>>
    /\ HooksOf(pipe["decorator"].trace, "AFTER") = <<1, 2>>
    /\ HandlerInvoked(pipe["decorator"])


(* ------------------------- properties: timeouts ----------------------- *)

\* The handler of surface s was started and the effective timeout elapses
\* before it settles.
TimeoutElapsed(s) ==
    /\ HandlerInvoked(pipe[s])
    /\ TimedOut(env.duration, EffectiveTimeout(requirements[s], config))

\* C22: when the effective timeout elapses before the handler has settled,
\* the request reaches its terminal state with the timeout response, whether
\* or not the handler ever settles.
C22_TimeoutCompletes ==
    \A s \in Surfaces :
        TimeoutElapsed(s) ~>
            /\ pipe[s].pc = "ERROR"
            /\ pipe[s].response =
                  [code |-> 408, body |-> [kind |-> "TimeoutError", detail |-> {}],
                   hasErrors |-> TRUE]

\* The request is over and its handler has still not settled.
C22_Witness ==
    /\ TimeoutElapsed("functional")
    /\ pipe["functional"].pc = "ERROR"
    /\ pipe["functional"].errKind = "TimeoutError"
    /\ pipe["functional"].late = "pending"
    /\ pipe["functional"].onTimeout = 1


\* The stages of the endpoint: auth, before hooks, validation, handler and
\* after hooks.
EndpointStages == {"AUTH", "BEFORE", "VALIDATE", "HANDLER", "AFTER"}

RECURSIVE TimeIn(_, _)
TimeIn(spent, stages) ==
    IF stages = {} THEN 0
    ELSE LET st == CHOOSE x \in stages : TRUE
         IN (IF st \in DOMAIN spent THEN spent[st] ELSE 0)
            + TimeIn(spent, stages \ {st})

\* C23: the timeout of an endpoint applies throughout the entire request:
\* a request in whose stages (auth, validation, before hooks, handler,
\* after hooks) the timeout elapses ends in the timeout outcome.
C23_TimeoutThroughout ==
    (timed.outcome # "none" /\ timed.timeout # 0
       /\ TimeIn(timed.spent, EndpointStages) > timed.timeout) =>
        timed.outcome = "timeout"

\* The handler itself outlasted the timeout and the request timed out.
C23_HandlerWitness ==
    /\ timed.outcome = "timeout"
    /\ timed.stage = Len(FunctionalOrder) + 1
    /\ timed.spent["HANDLER"] > timed.timeout


(* --------------------- properties: the shared cache -------------------- *)

\* C24: the cache is populated at most once per key: of the invocations
\* that race to populate a key one wins, every reader sees no entry or the
\* winning entry, and an entry that is present is never changed or removed.
C24_PopulatedOnce ==
    /\ [](/\ DOMAIN loading.writes = DOMAIN cache
          /\ \A k \in DOMAIN cache :
                /\ loading.writes[k] = 1
                /\ cache[k] \in Resolution(routes, k[1], k[2]).handlers
          /\ \A i \in DOMAIN loading.inv :
                LET v == loading.inv[i] IN
                /\ v.hit # {} => v.key \in DOMAIN cache /\ v.hit = {cache[v.key]}
                /\ (v.pc = "done" /\ v.key \in DOMAIN cache) =>
                      v.handlers = {cache[v.key]})
    /\ [][\A k \in DOMAIN cache : k \in DOMAIN cache' /\ cache'[k] = cache[k]]_vars

\* Two invocations missed the same key, both resolved it, and the key was
\* populated once.
C24_Witness ==
    /\ DOMAIN loading.inv = Invocations
    /\ \A i \in {1, 2} :
          /\ loading.inv[i].pc = "done"
          /\ loading.inv[i].hit = {}
          /\ loading.inv[i].key = <<"get", <<"farm", "field">>>>
          /\ loading.inv[i].handlers = {<<"farm", "field">>}
    /\ <<"get", <<"farm", "field">>>> \in DOMAIN cache
    /\ cache[<<"get", <<"farm", "field">>>>] = <<"farm", "field">>
    /\ loading.writes[<<"get", <<"farm", "field">>>>] = 1


(* ------------------------ properties: requirements --------------------- *)

\* C25: the requirements of a route are fixed when the route is registered:
\* no step of a request that is being handled changes them, so that the
\* next request to the route is handled under the same requirements.
C25_RequirementsFixed ==
    [][\A s \in Surfaces :
          (s = "functional" \/ pipe[s].pc # "IDLE") =>
              requirements'[s] = requirements[s]]_vars

\* A route with every kind of requirement has handled a request through
\* all of its stages, and the requirements are what was registered.
C25_Witness ==
    /\ pipe["functional"].pc = "DONE"
    /\ pipe["decorator"].pc = "DONE"
    /\ StagesOf(pipe["decorator"].trace) =
          {"BEFORE_ALL", "AUTH", "BEFORE", "VALIDATE", "HANDLER", "AFTER", "AFTER_ALL"}
    /\ requirements["functional"] =
          [auth |-> TRUE, before |-> 1, after |-> 1,
           requiredHeaders |-> HeaderNames, timeout |-> MaxTime]
    /\ requirements["decorator"] = requirements["functional"]


(* ------------------------ properties: cache modes ---------------------- *)

\* The resolved routes mode m keeps: all of them, those without a dynamic
\* segment, those with one, or none.
KeptUnder(m, file) ==
    CASE m = "all" -> TRUE
      [] m = "static" -> \A i \in DOMAIN file : ~IsDynamic(file[i])
      [] m = "dynamic" -> \E i \in DOMAIN file : IsDynamic(file[i])
      [] m = "none" -> FALSE

\* The cache a router in mode m holds after the requests served so far.
CacheOf(m) ==
    LET kept == {k \in DOMAIN seen :
                    /\ seen[k].outcome = "ok"
                    /\ \A f \in seen[k].handlers : KeptUnder(m, f)}
    IN [k \in kept |-> CHOOSE f \in seen[k].handlers : TRUE]

\* How a router in mode m answers a request after the requests served so far.
ServedUnder(m, method, path) ==
    LET hit == Lookup(CacheOf(m), <<method, path>>)
    IN IF hit # {} THEN [outcome |-> "ok", handlers |-> hit]
       ELSE Resolution(routes, method, path)

\* C27: the cache mode changes only which resolved routes are kept: the
\* cache holds the resolved routes its mode keeps, and every request is
\* resolved to the same handler with the same outcome under all four modes.
C27_CacheModesEquivalent ==
    /\ cache = CacheOf(cacheMode)
    /\ last.n > 0 =>
          \A m \in CacheModes :
              ServedUnder(m, last.method, last.path) =
                  [outcome |-> last.outcome, handlers |-> last.handlers]
    /\ \A k \in DOMAIN seen, m \in CacheModes : ServedUnder(m, k[1], k[2]) = seen[k]

\* In static mode a request is served from the cache while a route with a
\* dynamic segment, resolved before, was not kept.
C27_Witness ==
    /\ cacheMode = "static"
    /\ last.hit
    /\ last.handlers = {<<"farm", "field">>}
    /\ \E k \in DOMAIN seen :
          /\ seen[k] = [outcome |-> "ok", handlers |-> {<<"farm", "{farmId}">>}]
          /\ k \notin DOMAIN cache


(* --------------------- properties: directory routing ------------------- *)

\* C28: a file maps to the route with the same segments, an index file to
\* the path of its folder; a file or folder named {name} matches any one
\* concrete segment at its place, and the segment of the request found
\* there is bound to the path parameter called name.
C28_DirectoryRouting ==
    /\ \A file \in ProjectFiles :
          LET r == FileRoute(file)
              own == IF file.name = "index" THEN 0 ELSE 1
          IN /\ Len(r) = Len(file.dirs) + own
             /\ \A i \in DOMAIN file.dirs : r[i] = file.dirs[i]
             /\ own = 1 => r[Len(r)] = file.name
             /\ r \in RouteFiles
    /\ \A c \in {"farm", "field", "42"} :
          /\ Matches(<<"farm", "{farmId}">>, <<"farm", c>>)
          /\ ~Matches(<<"farm", "{farmId}">>, <<"farm", c, c>>)
          /\ ~Matches(<<"farm", "{farmId}">>, <<c>>)
          /\ Matches(<<"farm", "field">>, <<"farm", c>>) <=> c = "field"
    /\ last.outcome = "ok" =>
          \A h \in last.handlers :
              /\ Len(h) = Len(last.path)
              /\ \A i \in DOMAIN h :
                    IF h[i] \in ParamSegments
                    THEN /\ "farmId" \in DOMAIN last.params
                         /\ last.params["farmId"] = last.path[i]
                    ELSE h[i] = last.path[i]
              /\ DOMAIN last.params = {"farmId" : i \in Params(h)}
    /\ \A file \in ProjectFiles :
          (last.n > 0 /\ file.name = "index" /\ last.path = file.dirs
             /\ file.dirs \in DOMAIN routes) =>
              last.outcome # "NotFound"

C28_Witness ==
    /\ last.outcome = "ok"
    /\ last.path = <<"farm", "42">>
    /\ last.handlers = {<<"farm", "{farmId}">>}
    /\ DOMAIN last.params = {"farmId"}
    /\ last.params["farmId"] = "42"

\* A request to /farm is answered by the folder's index file.
C28_IndexWitness ==
    /\ last.outcome = "ok"
    /\ last.path = <<"farm">>
    /\ last.handlers = {FileRoute([dirs |-> <<"farm">>, name |-> "index", ext |-> "ts"])}
    /\ last.params = EmptyMap


(* ----------------------- properties: stream handlers ------------------- *)

\* What the try block of the loop comes to for record rec.
Tried(rec) ==
    IF stream.source = "s3" THEN TryS3Record(rec) ELSE TryDynamoRecord(rec)

\* C29: the stream handlers go through every record of the event once and
\* in event order; an exception raised on a record is caught and logged and
\* the later records are still gone through, and the handler resolves
\* without throwing.
C29_StreamRecords ==
    LET n == Len(stream.done) IN
    /\ Len(stream.records) = n
    /\ n <= stream.total
    /\ stream.pc # "rejected"
    /\ stream.pc = "running" => ENABLED StreamNext
    /\ stream.pc = "resolved" => n = stream.total
    /\ \A i \in 1..n :
          /\ stream.done[i].threw = Tried(stream.records[i]).threw
          /\ stream.done[i].processors = Tried(stream.records[i]).processors
          /\ stream.done[i].handled = Tried(stream.records[i]).handled
          /\ stream.done[i].cleanup = Tried(stream.records[i]).cleanup
          /\ stream.done[i].threw =>
                /\ stream.done[i].caught \in {"inner", "outer"}
                /\ stream.done[i].logged
          /\ ~stream.done[i].threw => stream.done[i].caught = "none"

\* The cleanup for the first record threw, the second record was processed
\* all the same and the handler resolved.
C29_Witness ==
    /\ stream.source = "s3"
    /\ stream.pc = "resolved"
    /\ stream.total = 2
    /\ stream.records[1] =
          [eventName |-> <<"ObjectRemoved", "Delete">>, key |-> <<"data", "json">>,
           fails |-> TRUE]
    /\ stream.done[1].caught = "outer"
    /\ stream.done[1].logged
    /\ stream.records[2].eventName = <<"ObjectCreated", "Put">>
    /\ stream.done[2].processors = {"json"}
    /\ ~stream.done[2].threw

\* The same for a DynamoDB stream: an INSERT whose handling threw, then a
\* REMOVE that was handled.
C29_DynamoWitness ==
    /\ stream.source = "dynamodb"
    /\ stream.pc = "resolved"
    /\ stream.total = 2
    /\ stream.records[1] = [eventName |-> "INSERT", key |-> <<>>, fails |-> TRUE]
    /\ stream.done[1].caught = "outer"
    /\ stream.done[2].handled = "REMOVE"
    /\ ~stream.done[2].threw

\* The processor of each extension the S3 handler knows.
ProcessorOf ==
    [json |-> "json", csv |-> "csv", txt |-> "text", log |-> "text", xml |-> "xml"]

\* The extension of a key is what follows its last dot, lower-cased; a key
\* without a dot has none.
HasExtension(key) == Len(key) > 1

\* C30: the S3 handler dispatches on event name and key extension: an
\* ObjectCreated record is processed by the one processor of its lower-cased
\* extension and by none for any other extension, an ObjectRemoved record
\* only triggers cleanup, a record with another event name nothing.
C30_Dispatch ==
    stream.source = "s3" =>
        \A i \in DOMAIN stream.done :
            LET rec == stream.records[i]
                out == stream.done[i]
                created == rec.eventName # Undefined /\ rec.eventName[1] = "ObjectCreated"
                removed == rec.eventName # Undefined /\ rec.eventName[1] = "ObjectRemoved"
                ext == ToLowerCase(rec.key[Len(rec.key)])
                known == HasExtension(rec.key) /\ ext \in DOMAIN ProcessorOf
            IN /\ created /\ known => out.processors = {ProcessorOf[ext]} /\ ~out.cleanup
               /\ created /\ ~known => out.processors = {} /\ ~out.cleanup
               /\ removed => out.processors = {} /\ out.cleanup
               /\ ~created /\ ~removed => out.processors = {} /\ ~out.cleanup

\* DATA.JSON is processed as JSON, image.png by no processor.
C30_Witness ==
    /\ stream.source = "s3"
    /\ stream.total = 2
    /\ Len(stream.done) = 2
    /\ stream.records[1].eventName = <<"ObjectCreated", "Put">>
    /\ stream.records[1].key = <<"DATA", "JSON">>
    /\ stream.done[1].processors = {"json"}
    /\ stream.records[2].eventName = <<"ObjectCreated", "Put">>
    /\ stream.records[2].key = <<"image", "png">>
    /\ stream.done[2].processors = {}

=============================================================================
